---- MODULE Spec2Model ----
(***************************************************************************)
(* SickSquares: the user_grids table, the clock, the two statistics        *)
(* queries getUserStats / getUserStatsByDateRange of the database layer,   *)
(* the POST handler of /api/grid with its rate limiter, and the date       *)
(* generators of the grid and statistics components.                       *)
(*                                                                         *)
(* Conventions                                                             *)
(*  - a calendar date ('YYYY-MM-DD') is a triple <<y, m, d>>;              *)
(*  - an instant (JS Date, getTime()) is a whole number of hours since     *)
(*    1970-01-01T00:00Z; the database runs in UTC and the statistics are   *)
(*    modelled for a server in UTC; tz is the UTC offset, in hours east,   *)
(*    of the machine whose local time a handler or component reads;        *)
(*  - a value returned through Math.round(x * 100) / 100 is kept as the    *)
(*    integer Math.round(x * 100), i.e. in hundredths; NaN is the          *)
(*    sentinel NaN.                                                        *)
(***************************************************************************)
EXTENDS Integers, Sequences, FiniteSets, TLC

VARIABLES user_grids, now, ret, tz, requests, gridDates,
          users, tx, ui, net, sub

vars == <<user_grids, now, ret, tz, requests, gridDates, users, tx, ui, net, sub>>

\* what the database layer outside user_grids, the browser and the network hold
others == <<users, tx, ui, net, sub>>

----------------------------------------------------------------------------
(* Bounds of the model *)

NumDates == 10          \* calendar dates a row may carry
MaxRecords == 5         \* rows in user_grids
MaxTicks == 1           \* clock steps
TickHours == 12         \* hours per clock step

----------------------------------------------------------------------------
(* Calendar arithmetic of JS Date and of the SQL DATE type (proleptic      *)
(* Gregorian calendar, days counted from 1970-01-01).                      *)

HoursPerDay == 24

\* new Date('YYYY-MM-DD') / Date.UTC: days since the epoch of a civil date
DaysFromCivil(y, m, d) ==
  LET yy  == IF m <= 2 THEN y - 1 ELSE y
      era == yy \div 400
      yoe == yy - era * 400
      mp  == IF m > 2 THEN m - 3 ELSE m + 9
      doy == (153 * mp + 2) \div 5 + d - 1
      doe == yoe * 365 + yoe \div 4 - yoe \div 100 + doy
  IN  era * 146097 + doe - 719468

\* the civil date of a day number (getFullYear / getMonth / getDate)
CivilFromDays(z) ==
  LET zz  == z + 719468
      era == zz \div 146097
      doe == zz - era * 146097
      yoe == (doe - doe \div 1460 + doe \div 36524 - doe \div 146096) \div 365
      doy == doe - (365 * yoe + yoe \div 4 - yoe \div 100)
      mp  == (5 * doy + 2) \div 153
      d   == doy - (153 * mp + 2) \div 5 + 1
      m   == IF mp < 10 THEN mp + 3 ELSE mp - 9
      y   == yoe + era * 400 + (IF m <= 2 THEN 1 ELSE 0)
  IN  <<y, m, d>>

DayNumber(date) == DaysFromCivil(date[1], date[2], date[3])

\* new Date(dateString).getTime(): UTC midnight of the date
DateTime(date) == DayNumber(date) * HoursPerDay

\* EXTRACT(YEAR FROM date)
ExtractYear(date) == date[1]

\* EXTRACT(DOW FROM date): 0 = Sunday .. 6 = Saturday (1970-01-01 is a Thursday)
ExtractDow(date) == (DayNumber(date) + 4) % 7

\* CURRENT_DATE
CurrentDate(t) == CivilFromDays(t \div HoursPerDay)

\* new Date().getFullYear()
GetFullYear(t) == CivilFromDays(t \div HoursPerDay)[1]

\* date comparison of the SQL DATE type
DateLeq(a, b) == DayNumber(a) <= DayNumber(b)

----------------------------------------------------------------------------
(* Input sets *)

FirstDate == <<2023, 12, 31>>       \* a Sunday

Dates == { CivilFromDays(DayNumber(FirstDate) + i) : i \in 0 .. NumDates - 1 }

\* the users whose requests are modelled
Users == {"u1"}

\* a row of another user, written before the modelled requests
OtherRows == { [user_id |-> "u2", date |-> <<2024, 1, 5>>, intensity |-> 3] }

IntensityInputs == {0, 3}

\* requested windows (end before start included)
StartDates == { <<2023, 12, 31>>, <<2024, 1, 2>> }
EndDates == { <<2024, 1, 1>>, <<2024, 1, 9>> }

Years == {2023, 2024}

Now0 == DateTime(<<2024, 1, 8>>) + 12

----------------------------------------------------------------------------
(* Numbers *)

NaN == -1               \* stands for the IEEE NaN of 0 / 0

Max(a, b) == IF a >= b THEN a ELSE b

RECURSIVE SumSeq(_)
SumSeq(s) == IF s = <<>> THEN 0 ELSE Head(s) + SumSeq(Tail(s))

\* Math.round((num / den) * 100), the value in hundredths that
\* Math.round(x * 100) / 100 returns for x = num / den
Round2(num, den) ==
  IF den = 0 THEN NaN
  ELSE LET n == IF den < 0 THEN 0 - num ELSE num
           d == IF den < 0 THEN 0 - den ELSE den
       IN  (200 * n + d) \div (2 * d)

----------------------------------------------------------------------------
(* The statistics queries *)

RECURSIVE OrderByDate(_)
\* ORDER BY date
OrderByDate(rows) ==
  IF rows = {} THEN <<>>
  ELSE LET first == CHOOSE r \in rows : \A q \in rows : DateLeq(r.date, q.date)
       IN  <<first>> \o OrderByDate(rows \ {first})

StatsRow(r) ==
  [date |-> r.date, intensity |-> r.intensity, day_of_week |-> ExtractDow(r.date)]

\* the window taken without its two end dates
Between_Exclusive(date, startDate, endDate) ==
  DayNumber(startDate) < DayNumber(date) /\ DayNumber(date) < DayNumber(endDate)

\* date BETWEEN $2 AND $3
Between(date, startDate, endDate) ==
  DateLeq(startDate, date) /\ DateLeq(date, endDate)

\* the query without its "AND intensity > 0" condition
dateRangeData_AllRows(grids, userId, startDate, endDate) ==
  OrderByDate({ StatsRow(r) : r \in { g \in grids :
      /\ g.user_id = userId
      /\ Between(g.date, startDate, endDate) } })

\* the rows of the dateRangeData query
dateRangeData(grids, userId, startDate, endDate) ==
  OrderByDate({ StatsRow(r) : r \in { g \in grids :
      /\ g.user_id = userId
      /\ Between(g.date, startDate, endDate)
      /\ g.intensity > 0 } })

\* the rows of the yearData query
yearData(grids, userId, year) ==
  OrderByDate({ StatsRow(r) : r \in { g \in grids :
      /\ g.user_id = userId
      /\ ExtractYear(g.date) = year
      /\ g.intensity > 0 } })

\* the count of the currentYearSickDays query
currentYearSickDays(grids, userId, currentYear, t) ==
  Cardinality({ g \in grids :
      /\ g.user_id = userId
      /\ ExtractYear(g.date) = currentYear
      /\ g.intensity > 0
      /\ DateLeq(g.date, CurrentDate(t)) })

\* the Julian rule: every fourth year
isLeapYear_Div4(year) == year % 4 = 0

isLeapYear(year) ==
  (year % 4 = 0 /\ year % 100 # 0) \/ (year % 400 = 0)

daysInYear(year) == IF isLeapYear(year) THEN 366 ELSE 365

\* Math.floor((end.getTime() - start.getTime()) / (1000 * 60 * 60 * 24)) + 1
totalDays(startDate, endDate) ==
  (DateTime(endDate) - DateTime(startDate)) \div HoursPerDay + 1

\* Math.floor((now - new Date(currentYear, 0, 1)) / (1000 * 60 * 60 * 24)) + 1
daysIntoYear(t) ==
  (t - DateTime(<<GetFullYear(t), 1, 1>>)) \div HoursPerDay + 1

dayNames ==
  <<"Sunday", "Monday", "Tuesday", "Wednesday", "Thursday", "Friday", "Saturday">>

\* dayCount[dow] after the forEach over sickDays (0 for an absent key)
dayCount(sickDays, dow) ==
  Cardinality({ i \in 1 .. Len(sickDays) : sickDays[i].day_of_week = dow })

\* a later weekday with the same count replaces the earlier one
IsMoreCommon_OrEqual(count, maxCount) == count >= maxCount

\* the test that lets a weekday replace the most common day found so far
IsMoreCommon(count, maxCount) == count > maxCount

RECURSIVE MostCommonDayFrom(_, _, _, _)
\* Object.entries(dayCount).forEach: the keys present, in ascending order
MostCommonDayFrom(sickDays, dow, mostCommonDay, maxCount) ==
  IF dow > 6 THEN mostCommonDay
  ELSE LET count == dayCount(sickDays, dow)
       IN  IF count > 0 /\ IsMoreCommon(count, maxCount)
           THEN MostCommonDayFrom(sickDays, dow + 1, dayNames[dow + 1], count)
           ELSE MostCommonDayFrom(sickDays, dow + 1, mostCommonDay, maxCount)

mostCommonDay(sickDays) == MostCommonDayFrom(sickDays, 0, "None", 0)

RECURSIVE SortTimes(_)
\* .sort((a, b) => a.getTime() - b.getTime())
SortTimes(ts) ==
  IF ts = <<>> THEN <<>>
  ELSE LET k == CHOOSE i \in 1 .. Len(ts) :
                  /\ \A j \in 1 .. Len(ts) : ts[i] <= ts[j]
                  /\ \A j \in 1 .. i - 1 : ts[j] # ts[i]
           rest == [j \in 1 .. Len(ts) - 1 |-> IF j < k THEN ts[j] ELSE ts[j + 1]]
       IN  <<ts[k]>> \o SortTimes(rest)

\* sickDays.map(d => new Date(d.date)).sort(...)
sortedDates(sickDays) ==
  SortTimes([i \in 1 .. Len(sickDays) |-> DateTime(sickDays[i].date)])

\* the variables of the streak loop before its first iteration
StreakInit ==
  [currentStreak |-> 0, longestStreak |-> 0, tempStreak |-> 0,
   streaks |-> <<>>, recoveryPeriods |-> <<>>]

\* a one-day hole does not end the streak
ExtendsStreak_Within2(diffDays) == diffDays <= 2

\* diffDays === 1
ExtendsStreak(diffDays) == diffDays = 1

\* the date difference itself is pushed
RecoveryPush_Gap(recoveryPeriods, diffDays) ==
  IF diffDays > 1 THEN Append(recoveryPeriods, diffDays) ELSE recoveryPeriods

\* recoveryPeriods.push(diffDays - 1) when diffDays > 1
RecoveryPush(recoveryPeriods, diffDays) ==
  IF diffDays > 1 THEN Append(recoveryPeriods, diffDays - 1) ELSE recoveryPeriods

\* diffFromToday <= 1 && i === sortedDates.length - 1
IsCurrent(diffFromToday, i, length) == diffFromToday <= 1 /\ i = length

\* one iteration of the streak loop (i is 1-based)
StreakStep(st, sorted, i, t) ==
  LET diffDays == (sorted[i] - sorted[i - 1]) \div HoursPerDay
      st1 == IF i = 1 THEN [st EXCEPT !.tempStreak = 1]
             ELSE IF ExtendsStreak(diffDays)
                  THEN [st EXCEPT !.tempStreak = st.tempStreak + 1]
                  ELSE [st EXCEPT
                          !.longestStreak = Max(st.longestStreak, st.tempStreak),
                          !.streaks = Append(st.streaks, st.tempStreak),
                          !.recoveryPeriods = RecoveryPush(st.recoveryPeriods, diffDays),
                          !.tempStreak = 1]
      diffFromToday == (t - sorted[i]) \div HoursPerDay
  IN  IF IsCurrent(diffFromToday, i, Len(sorted))
      THEN [st1 EXCEPT !.currentStreak = st1.tempStreak]
      ELSE st1

RECURSIVE StreakLoop(_, _, _, _)
StreakLoop(st, sorted, i, t) ==
  IF i > Len(sorted) THEN st
  ELSE StreakLoop(StreakStep(st, sorted, i, t), sorted, i + 1, t)

\* the last streak raises longestStreak but is not pushed
LastStreak_NoPush(st, length) ==
  IF length > 0
  THEN [st EXCEPT !.longestStreak = Max(st.longestStreak, st.tempStreak)]
  ELSE st

\* the last streak is pushed but does not raise longestStreak
LastStreak_NoMax(st, length) ==
  IF length > 0
  THEN [st EXCEPT !.streaks = Append(st.streaks, st.tempStreak)]
  ELSE st

\* "Don't forget the last streak"
LastStreak(st, length) ==
  IF length > 0
  THEN [st EXCEPT !.longestStreak = Max(st.longestStreak, st.tempStreak),
                  !.streaks = Append(st.streaks, st.tempStreak)]
  ELSE st

\* the streak variables after the loop and the final flush
Streaks(sickDays, t) ==
  LET sorted == sortedDates(sickDays)
  IN  LastStreak(StreakLoop(StreakInit, sorted, 1, t), Len(sorted))

\* mean of a list, 0 for the empty list, through Math.round(x * 100) / 100
averageOf(list) ==
  IF Len(list) > 0 THEN Round2(SumSeq(list), Len(list)) ELSE 0

\* the sum of the squares of the intensities
totalIntensity_Squares(sickDays) ==
  SumSeq([i \in 1 .. Len(sickDays) |-> sickDays[i].intensity * sickDays[i].intensity])

totalIntensity(sickDays) ==
  SumSeq([i \in 1 .. Len(sickDays) |-> sickDays[i].intensity])

\* the division without the totalSickDays > 0 test
averageIntensity_Unguarded(sickDays) ==
  Round2(totalIntensity(sickDays), Len(sickDays))

averageIntensity(sickDays) ==
  IF Len(sickDays) > 0 THEN Round2(totalIntensity(sickDays), Len(sickDays)) ELSE 0

\* the object returned by both queries, with the two lists of the streak loop
Result(sickDays, percentageOfYear, yearToDatePercentage, t) ==
  LET st == Streaks(sickDays, t)
  IN  [ totalSickDays        |-> Len(sickDays),
        percentageOfYear     |-> percentageOfYear,
        yearToDatePercentage |-> yearToDatePercentage,
        averageIntensity     |-> averageIntensity(sickDays),
        mostCommonDay        |-> mostCommonDay(sickDays),
        recoveryRate         |-> averageOf(st.recoveryPeriods),
        currentStreak        |-> st.currentStreak,
        longestStreak        |-> st.longestStreak,
        averageSickStreak    |-> averageOf(st.streaks),
        streaks              |-> st.streaks,
        recoveryPeriods      |-> st.recoveryPeriods ]

getUserStatsByDateRange(grids, userId, startDate, endDate, t) ==
  LET sickDays == dateRangeData(grids, userId, startDate, endDate)
      percentageOfYear == Round2(Len(sickDays) * 100, totalDays(startDate, endDate))
      yearToDateSickDaysCount == currentYearSickDays(grids, userId, GetFullYear(t), t)
      yearToDatePercentage == Round2(yearToDateSickDaysCount * 100, daysIntoYear(t))
  IN  Result(sickDays, percentageOfYear, yearToDatePercentage, t)

getUserStats(grids, userId, year, t) ==
  LET sickDays == yearData(grids, userId, year)
      percentageOfYear == Round2(Len(sickDays) * 100, daysInYear(year))
      currentYear == GetFullYear(t)
      yearToDateSickDays ==
        IF year = currentYear THEN Len(sickDays)
        ELSE Cardinality({ i \in 1 .. Len(sickDays) :
               GetFullYear(DateTime(sickDays[i].date)) = currentYear })
      yearToDatePercentage ==
        IF year = currentYear THEN Round2(yearToDateSickDays * 100, daysIntoYear(t))
        ELSE 0
  IN  Result(sickDays, percentageOfYear, yearToDatePercentage, t)

----------------------------------------------------------------------------
(* State machine *)

NoDate == <<0, 0, 0>>

\* no intensity in the request
NoIntensity == [kind |-> "none", x10 |-> 0]

\* no request is being answered
NoRet ==
  [op |-> "none", userId |-> "", startDate |-> NoDate, endDate |-> NoDate,
   year |-> 0, stats |-> Result(<<>>, 0, 0, 0),
   status |-> 0, date |-> NoDate, intensity |-> NoIntensity]

\* const requests = new Map()
NoRequests == [id \in {} |-> [count |-> 0, resetTime |-> 0]]

\* no date array has been generated
NoGrid == [by |-> "none", year |-> 0, dates |-> <<>>]

\* the users rows the grid rows refer to; the id is the e-mail of the session
BaseUsers ==
  { [id |-> "u1", email |-> "u1", username |-> "u1"],
    [id |-> "u2", email |-> "u2", username |-> "u2"] }

\* no transaction is open
NoTx == [pc |-> "idle", id |-> "", email |-> "", existingId |-> "",
         users |-> {}, grids |-> {}, error |-> "", at |-> ""]

\* the component is not mounted
NoUi ==
  [status |-> "none", loading |-> TRUE, grid |-> "none", gridData |-> <<>>,
   demoTimeout |-> 0, stale |-> 0, handle |-> 0, timers |-> {}, effect |-> FALSE,
   fetch |-> <<>>, clicks |-> 0, clicked |-> 0]

\* nothing is in flight and nothing was received
NoNet == [posts |-> <<>>, responses |-> <<>>, received |-> <<>>]

\* what Init fixes besides the table, the clock and the response
Idle ==
  /\ users = BaseUsers
  /\ tx = NoTx
  /\ ui = NoUi
  /\ net = NoNet
  /\ sub = 0

Init ==
  /\ user_grids = OtherRows
  /\ now = Now0
  /\ ret = NoRet
  /\ tz = 0
  /\ requests = NoRequests
  /\ gridDates = NoGrid
  /\ Idle

\* the insert without its ON CONFLICT clause against a table without its
\* UNIQUE constraint
Upsert_InsertOnly(grids, userId, date, intensity) ==
  grids \cup { [user_id |-> userId, date |-> date, intensity |-> intensity] }

\* INSERT ... ON CONFLICT (user_id, date) DO UPDATE SET intensity = $3
Upsert(grids, userId, date, intensity) ==
  { g \in grids : ~(g.user_id = userId /\ g.date = date) }
    \cup { [user_id |-> userId, date |-> date, intensity |-> intensity] }

updateGridSquare(userId, date, intensity) ==
  /\ ret = NoRet
  /\ \/ \E g \in user_grids : g.user_id = userId /\ g.date = date
     \/ Cardinality(user_grids) < MaxRecords
  /\ user_grids' = Upsert(user_grids, userId, date, intensity)
  /\ UNCHANGED <<now, ret, tz, requests, gridDates, others>>

\* the clock advances
Tick ==
  /\ ret = NoRet
  /\ now < Now0 + MaxTicks * TickHours
  /\ now' = now + TickHours
  /\ UNCHANGED <<user_grids, ret, tz, requests, gridDates, others>>

\* the handler answering from a clock read once, when the module was loaded
StatsByDateRange_StaleClock(userId, startDate, endDate) ==
  /\ ret = NoRet
  /\ ret' = [NoRet EXCEPT
               !.op = "range", !.userId = userId, !.startDate = startDate,
               !.endDate = endDate, !.status = 200,
               !.stats = getUserStatsByDateRange(user_grids, userId, startDate, endDate, Now0)]
  /\ UNCHANGED <<user_grids, now, tz, requests, gridDates, others>>

\* GET /api/stats?startDate=..&endDate=..
StatsByDateRange(userId, startDate, endDate) ==
  /\ ret = NoRet
  /\ ret' = [NoRet EXCEPT
               !.op = "range", !.userId = userId, !.startDate = startDate,
               !.endDate = endDate, !.status = 200,
               !.stats = getUserStatsByDateRange(user_grids, userId, startDate, endDate, now)]
  /\ UNCHANGED <<user_grids, now, tz, requests, gridDates, others>>

\* the handler deleting the rows it has read
StatsByYear_Consuming(userId, year) ==
  /\ ret = NoRet
  /\ ret' = [NoRet EXCEPT
               !.op = "year", !.userId = userId, !.year = year, !.status = 200,
               !.stats = getUserStats(user_grids, userId, year, now)]
  /\ user_grids' = { g \in user_grids : ~(g.user_id = userId /\ ExtractYear(g.date) = year) }
  /\ UNCHANGED <<now, tz, requests, gridDates, others>>

\* GET /api/stats?year=..
StatsByYear(userId, year) ==
  /\ ret = NoRet
  /\ ret' = [NoRet EXCEPT
               !.op = "year", !.userId = userId, !.year = year, !.status = 200,
               !.stats = getUserStats(user_grids, userId, year, now)]
  /\ UNCHANGED <<user_grids, now, tz, requests, gridDates, others>>

\* the response is sent: the request is answered
Respond ==
  /\ ret # NoRet
  /\ ret' = NoRet
  /\ UNCHANGED <<user_grids, now, tz, requests, gridDates, others>>

Next ==
  \/ \E u \in Users, d \in Dates, i \in IntensityInputs : updateGridSquare(u, d, i)
  \/ Tick
  \/ \E u \in Users, s \in StartDates, e \in EndDates : StatsByDateRange(u, s, e)
  \/ \E u \in Users, y \in Years : StatsByYear(u, y)
  \/ Respond

Spec == Init /\ [][Next]_vars

TypeOK ==
  /\ \A g \in user_grids :
       /\ g \in OtherRows \/ g.user_id \in Users
       /\ g.date \in Dates
       /\ g.intensity \in 0 .. 4
  /\ Cardinality(user_grids) <= MaxRecords
  /\ ret.op \in {"none", "range", "year", "post", "load"}

----------------------------------------------------------------------------
(* POST /api/grid: the rate limiter, the validation of the body, the       *)
(* future-date test and the upsert.  The session is that of a signed-in    *)
(* user whose id and e-mail are the same string, so that ensureUser finds  *)
(* the row of that id and only refreshes name and image: the users table   *)
(* does not reach user_grids.                                              *)

MaxPosts == 3           \* requests counted in one rate-limit window

\* Date.now() counts milliseconds; the model clock counts hours (now) and
\* steps of 30 seconds within the hour (sub), and the limiter's arithmetic is
\* done in these steps, the window being two of them
MsPerStep == 30000
StepsPerHour == 120
DateNow(t, s) == t * StepsPerHour + s

\* rateLimit(session.user.email, 30, 60000)
maxRequests == 30
windowMs == 60000

\* the Map after "Clean up old entries"
CleanUp(reqs, windowStart) ==
  [id \in { k \in DOMAIN reqs : ~(reqs[k].resetTime < windowStart) } |-> reqs[id]]

\* requests.get(identifier) || { count: 0, resetTime: now + windowMs }
GetRequests(reqs, identifier, nowMs, window) ==
  IF identifier \in DOMAIN reqs
    THEN reqs[identifier]
    ELSE [count |-> 0, resetTime |-> nowMs + window]

\* the entry after the reset-or-increment step
CountRequest(userRequests, nowMs, window) ==
  IF userRequests.resetTime < nowMs
    THEN [count |-> 1, resetTime |-> nowMs + window]
    ELSE [userRequests EXCEPT !.count = @ + 1]

\* rateLimit: the Map it leaves and the boolean it returns
rateLimit(reqs, identifier, limit, window, nowMs) ==
  LET cleaned == CleanUp(reqs, nowMs - window)
      userRequests == CountRequest(GetRequests(cleaned, identifier, nowMs, window),
                                   nowMs, window)
  IN  [requests |-> [id \in DOMAIN cleaned \cup {identifier} |->
                       IF id = identifier THEN userRequests ELSE cleaned[id]],
       allowed |-> userRequests.count <= limit]

\* the date of the body: <<y, m, d>> is the string "YYYY-MM-DD", <<>> is a
\* missing or empty date, a shorter tuple a string of another shape
IsFalsyDate(date) == date = <<>>

\* /^\d{4}-\d{2}-\d{2}$/.test(date)
dateRegexTest(date) == Len(date) = 3

\* intensity === undefined
IsUndefined(intensity) == intensity.kind = "undefined"

\* typeof intensity !== 'number' || intensity < 0 || intensity > 4, with the
\* number held in tenths; the test lets every number of [0, 4] through
IntensityRefused(intensity) ==
  \/ intensity.kind # "number"
  \/ intensity.x10 < 0
  \/ intensity.x10 > 40

\* today.setHours(23, 59, 59, 999) on a machine tz hours east of UTC: the
\* first whole hour after that instant
EndOfLocalDay(t, offset) == ((t + offset) \div HoursPerDay + 1) * HoursPerDay - offset

\* dateObj > today: new Date("YYYY-MM-DD") is midnight UTC of that date, and
\* it is later than 23:59:59.999 iff it is at or after the next whole hour
IsFutureDate(date, t, offset) == DateTime(date) >= EndOfLocalDay(t, offset)

\* the INTEGER column takes whole numbers only
IntegerColumnAccepts(x10) == x10 % 10 = 0

\* CHECK (intensity >= 0 AND intensity <= 4)
CheckIntensity(i) == i >= 0 /\ i <= 4

\* the status of the response and the table the handler leaves
PostOutcome(grids, email, date, intensity, allowed, t, offset) ==
  IF ~allowed THEN [status |-> 429, grids |-> grids]
  ELSE IF IsFalsyDate(date) \/ IsUndefined(intensity) THEN [status |-> 400, grids |-> grids]
  ELSE IF IntensityRefused(intensity) THEN [status |-> 400, grids |-> grids]
  ELSE IF ~dateRegexTest(date) THEN [status |-> 400, grids |-> grids]
  ELSE IF IsFutureDate(date, t, offset) THEN [status |-> 400, grids |-> grids]
  ELSE IF ~IntegerColumnAccepts(intensity.x10) \/ ~CheckIntensity(intensity.x10 \div 10)
         THEN [status |-> 500, grids |-> grids]
  ELSE [status |-> 200, grids |-> Upsert(grids, email, date, intensity.x10 \div 10)]

\* the handler run on the current limiter, table and clock: what it leaves
\* in the limiter and the table, and the status it answers with
PostHandler(email, date, intensity) ==
  LET limited == rateLimit(requests, email, maxRequests, windowMs \div MsPerStep,
                           DateNow(now, sub))
      outcome == PostOutcome(user_grids, email, date, intensity, limited.allowed, now, tz)
  IN  [requests |-> limited.requests, grids |-> outcome.grids, status |-> outcome.status]

\* the requests of a window are counted up to cap
WithinCap(email, cap) ==
  IF email \in DOMAIN requests
    THEN requests[email].count < cap \/ requests[email].resetTime < DateNow(now, sub)
    ELSE TRUE

POSTWithin(email, date, intensity, cap) ==
  /\ ret = NoRet
  /\ WithinCap(email, cap)
  /\ LET handled == PostHandler(email, date, intensity)
     IN  /\ requests' = handled.requests
         /\ user_grids' = handled.grids
         /\ ret' = [NoRet EXCEPT !.op = "post", !.userId = email, !.date = date,
                                 !.intensity = intensity, !.status = handled.status]
  /\ UNCHANGED <<now, tz, gridDates, others>>

POST(email, date, intensity) == POSTWithin(email, date, intensity, MaxPosts)

\* bodies of the requests
PostDates == { <<>>, <<2024, 1>>, <<2024, 1, 8>>, <<2024, 1, 9>>, <<2024, 1, 10>> }

PostIntensities ==
  { [kind |-> "undefined", x10 |-> 0], [kind |-> "string", x10 |-> 30] }
    \cup { [kind |-> "number", x10 |-> x] : x \in {-10, 0, 25, 30, 50} }

\* a row the user stored earlier
SeedRows == { [user_id |-> "u1", date |-> <<2024, 1, 8>>, intensity |-> 2] }

\* UTC offsets of the server, hours east
TzOffsets == {-5, 0, 9}

\* times of day of the first request
WriteInstants == { Now0 - 10, Now0 }

InitWrite ==
  /\ user_grids = OtherRows \cup SeedRows
  /\ now \in WriteInstants
  /\ tz \in TzOffsets
  /\ ret = NoRet
  /\ requests = NoRequests
  /\ gridDates = NoGrid
  /\ Idle

NextWrite ==
  \/ \E u \in Users, d \in PostDates, i \in PostIntensities : POST(u, d, i)
  \/ Tick
  \/ Respond

SpecWrite == InitWrite /\ [][NextWrite]_vars

----------------------------------------------------------------------------
(* The date generators of the components.  A Date object is the number of  *)
(* its local calendar day and the order of its instant within that day     *)
(* (ms: 0 for the instant of the first new Date() of a call, 1 for a       *)
(* later one); days have 24 local hours.                                   *)

GridDays == 14          \* consecutive days the clock of a component starts on

WeeksShown == 53        \* dates.length < 53 * 7
DaysPerWeek == 7

\* new Date() on a machine offset hours east of UTC
NewDate(t, offset, ms) == [day |-> (t + offset) \div HoursPerDay, ms |-> ms]

\* setHours(0, 0, 0, 0)
StartOfDay(date) == [date EXCEPT !.ms = 0]

\* new Date(year, monthIndex, day): day 1 of the month plus the days beyond it
MakeDay(y, m, d) == DaysFromCivil(y, m, 1) + d - 1

getDay(date) == (date.day + 4) % 7
getDate(date) == CivilFromDays(date.day)[3]
getFullYear(date) == CivilFromDays(date.day)[1]

\* date.setFullYear(y): same month and day of month, overflowing Feb 29
setFullYear(date, y) ==
  [date EXCEPT !.day = MakeDay(y, CivilFromDays(date.day)[2], CivilFromDays(date.day)[3])]

\* date.setDate(n): day n of the month the object is in, overflowing
setDate(date, n) ==
  [date EXCEPT !.day = MakeDay(CivilFromDays(date.day)[1], CivilFromDays(date.day)[2], n)]

\* a <= b on Date objects
DateObjLeq(a, b) == a.day < b.day \/ (a.day = b.day /\ a.ms <= b.ms)

\* A loop that pushes currentDate and moves it to the next day on every
\* pass has pushed k dates, and holds first + k in currentDate, when it tests
\* its condition for the (k+1)-th time; it ends at the least k at which it stops.
MaxGridLen == 400       \* passes of a loop

Passes == 0 .. MaxGridLen

\* the least of the pass counts at which the loop would stop
FirstStop(stops) == CHOOSE k \in stops : \A j \in stops : k <= j

\* currentDate after k passes of currentDate.setDate(currentDate.getDate() + 1)
Advance(first, k) == [first EXCEPT !.day = @ + k]

\* the k dates pushed from first on
Pushed(first, k) == [i \in 1 .. k |-> first.day + i - 1]

\* while (dates.length % 7 !== 0) { dates.push(...); currentDate.setDate(+1) }
PadWeek(first, length) ==
  LET Stops(k) == (length + k) % DaysPerWeek = 0
  IN  length + FirstStop({ k \in Passes : Stops(k) })

\* UserStats.tsx: while (currentDate <= today) { push; +1 }
PushThroughToday(first, today) ==
  LET Stops(k) == ~DateObjLeq(Advance(first, k), today)
  IN  FirstStop({ k \in Passes : Stops(k) })

\* UserStats.tsx generateRolling12Months
generateRolling12Months_UserStats(t, offset) ==
  LET today == StartOfDay(NewDate(t, offset, 0))
      startDate == setDate(today, getDate(today) - 365)
      firstSunday == setDate(startDate, getDate(startDate) - getDay(startDate))
  IN  Pushed(firstSunday, PadWeek(firstSunday, PushThroughToday(firstSunday, today)))

\* DayGrid.tsx: while (currentDate <= today || currentDate.getDay() !== 0)
PushThroughWeek(first, today) ==
  LET Stops(k) == ~(DateObjLeq(Advance(first, k), today) \/ getDay(Advance(first, k)) # 0)
  IN  FirstStop({ k \in Passes : Stops(k) })

\* oneYearAgo.setFullYear(today.getFullYear() - 1);
\* oneYearAgo.setDate(today.getDate() + 1)
oneYearAgo(today, second) ==
  setDate(setFullYear(second, getFullYear(today) - 1), getDate(today) + 1)

\* DayGrid.tsx generateRolling12Months; late: the second new Date() of the
\* call falls in a later millisecond than the first
generateRolling12Months(t, offset, late) ==
  LET today == NewDate(t, offset, 0)
      second == NewDate(t, offset, IF late THEN 1 ELSE 0)
      startDate == oneYearAgo(today, second)
      firstSunday == setDate(startDate, getDate(startDate) - getDay(startDate))
  IN  Pushed(firstSunday, PadWeek(firstSunday, PushThroughWeek(firstSunday, today)))

\* the loop of generateYearDates: it stops before a pass when its condition
\* fails, and after the pass that made dates.length k when the break fires
YearLoop(first, endDate, year) ==
  LET Condition(k) ==
        \/ DateObjLeq(Advance(first, k), endDate)
        \/ getDay(Advance(first, k)) # 0
        \/ k < WeeksShown * DaysPerWeek
      Break(k) ==
        k >= WeeksShown * DaysPerWeek /\ getFullYear(Advance(first, k)) > year
      Stops(k) == (k >= 1 /\ Break(k)) \/ ~Condition(k)
  IN  FirstStop({ k \in Passes : Stops(k) })

\* DayGrid.tsx generateYearDates
generateYearDates(year) ==
  LET startDate == [day |-> MakeDay(year, 1, 1), ms |-> 0]
      endDate == [day |-> MakeDay(year, 12, 31), ms |-> 0]
      firstSunday == setDate(startDate, getDate(startDate) - getDay(startDate))
  IN  Pushed(firstSunday, YearLoop(firstSunday, endDate, year))

\* date.toISOString().split('T')[0] of a local midnight: its UTC calendar date
ToISODate(day, offset) == CivilFromDays((day * HoursPerDay - offset) \div HoursPerDay)

\* the component renders the grid of the rolling 12 months
RenderUserStatsGrid ==
  /\ ret = NoRet
  /\ gridDates' = [by |-> "UserStats", year |-> 0,
                   dates |-> generateRolling12Months_UserStats(now, tz)]
  /\ UNCHANGED <<user_grids, now, ret, tz, requests, others>>

RenderDayGrid(late) ==
  /\ ret = NoRet
  /\ gridDates' = [by |-> "DayGrid", year |-> 0,
                   dates |-> generateRolling12Months(now, tz, late)]
  /\ UNCHANGED <<user_grids, now, ret, tz, requests, others>>

RenderYearGrid(year) ==
  /\ ret = NoRet
  /\ gridDates' = [by |-> "year", year |-> year, dates |-> generateYearDates(year)]
  /\ UNCHANGED <<user_grids, now, ret, tz, requests, others>>

\* UserStats.tsx loadStats: the window it requests and the answer of the route
loadStats(userId) ==
  /\ ret = NoRet
  /\ LET dates == generateRolling12Months_UserStats(now, tz)
         startDate == ToISODate(dates[1], tz)
         endDate == ToISODate(dates[Len(dates)], tz)
     IN  ret' = [NoRet EXCEPT
                   !.op = "load", !.userId = userId, !.startDate = startDate,
                   !.endDate = endDate, !.status = 200,
                   !.stats = getUserStatsByDateRange(user_grids, userId,
                                                     startDate, endDate, now)]
  /\ UNCHANGED <<user_grids, now, tz, requests, gridDates, others>>

\* the days a component is opened on, each early and late in the UTC day
FirstGridDay == <<2024, 2, 24>>         \* a Saturday
GridHours == {2, 20}
GridInstants ==
  { (DayNumber(FirstGridDay) + i) * HoursPerDay + h : i \in 0 .. GridDays - 1, h \in GridHours }

GridYears == {2000, 2022, 2023, 2024}

InitGrid ==
  /\ user_grids = OtherRows \cup SeedRows
  /\ now \in GridInstants
  /\ tz \in TzOffsets
  /\ ret = NoRet
  /\ requests = NoRequests
  /\ gridDates = NoGrid
  /\ Idle

NextGrid ==
  \/ RenderUserStatsGrid
  \/ \E late \in BOOLEAN : RenderDayGrid(late)
  \/ \E y \in GridYears : RenderYearGrid(y)
  \/ \E u \in Users : loadStats(u)
  \/ Respond

SpecGrid == InitGrid /\ [][NextGrid]_vars

----------------------------------------------------------------------------
(* The statistics as functions of the rows they are handed: the two        *)
(* queries applied to tables whose rows were not all written through the   *)
(* CHECK constraint of initializeDatabase (CREATE TABLE IF NOT EXISTS      *)
(* leaves a table that already exists as it is).                           *)

EngineDays == 3         \* dates that carry a row

EngineDates == { CivilFromDays(DayNumber(FirstDate) + i) : i \in 1 .. EngineDays }

\* intensities of the rows: below the range, inside it, above it
EngineIntensities == {-1, 3, 7}

\* the tables: a row of the user on any of the dates, of any such intensity
EngineTables ==
  { OtherRows \cup { [user_id |-> "u1", date |-> d, intensity |-> f[d]] : d \in DOMAIN f } :
      f \in UNION { [D -> EngineIntensities] : D \in SUBSET EngineDates } }

InitEngine ==
  /\ user_grids \in EngineTables
  /\ now = Now0
  /\ ret = NoRet
  /\ tz = 0
  /\ requests = NoRequests
  /\ gridDates = NoGrid
  /\ Idle

NextEngine ==
  \/ \E u \in Users, s \in StartDates, e \in EndDates : StatsByDateRange(u, s, e)
  \/ \E u \in Users, y \in Years : StatsByYear(u, y)
  \/ Respond

SpecEngine == InitEngine /\ [][NextEngine]_vars

----------------------------------------------------------------------------
(* The statistics over tables of every intensity the table admits, read    *)
(* at two clocks.                                                          *)

StatDays == 3           \* dates that carry a row

StatDateSeq == << <<2024, 1, 7>>, <<2024, 1, 1>>, <<2023, 12, 31>>, <<2024, 1, 2>> >>
StatDates == { StatDateSeq[i] : i \in 1 .. StatDays }

\* CHECK (intensity >= 0 AND intensity <= 4)
StatIntensities == 0 .. 4

StatTables ==
  { OtherRows \cup { [user_id |-> "u1", date |-> d, intensity |-> f[d]] : d \in DOMAIN f } :
      f \in UNION { [D -> StatIntensities] : D \in SUBSET StatDates } }

InitStats ==
  /\ user_grids \in StatTables
  /\ now = Now0
  /\ ret = NoRet
  /\ tz = 0
  /\ requests = NoRequests
  /\ gridDates = NoGrid
  /\ Idle

NextStats ==
  \/ \E u \in Users, s \in StartDates, e \in EndDates : StatsByDateRange(u, s, e)
  \/ \E u \in Users, y \in Years : StatsByYear(u, y)
  \/ Tick
  \/ Respond

SpecStats == InitStats /\ [][NextStats]_vars

----------------------------------------------------------------------------
(* A client that posts updates of one square in bursts and keeps the       *)
(* responses, with the clock moving between the bursts.                    *)

\* the steps of 30 seconds the clock makes, one after the other
SubSteps == <<2, 1>>

\* the clock moves to the next instant of the script
TickSub ==
  /\ ret = NoRet
  /\ \E n \in 1 .. Len(SubSteps) :
       /\ sub = SumSeq(SubSeq(SubSteps, 1, n - 1))
       /\ sub' = sub + SubSteps[n]
  /\ UNCHANGED <<user_grids, now, ret, tz, requests, gridDates, users, tx, ui, net>>

\* the client receives the response and keeps its status and the time
Deliver ==
  /\ ret # NoRet
  /\ net' = [net EXCEPT !.received =
               Append(@, [status |-> ret.status, at |-> DateNow(now, sub)])]
  /\ ret' = NoRet
  /\ UNCHANGED <<user_grids, now, tz, requests, gridDates, users, tx, ui, sub>>

\* the square the bursts update
BurstDate == <<2024, 1, 8>>
BurstIntensity == [kind |-> "number", x10 |-> 30]

InitLimit ==
  /\ user_grids = OtherRows \cup SeedRows
  /\ now = Now0
  /\ ret = NoRet
  /\ tz = 0
  /\ requests = NoRequests
  /\ gridDates = NoGrid
  /\ Idle

NextLimit ==
  \/ \E u \in Users : POSTWithin(u, BurstDate, BurstIntensity, maxRequests + 1)
  \/ TickSub
  \/ Deliver

SpecLimit == InitLimit /\ [][NextLimit]_vars

----------------------------------------------------------------------------
(* The DayGrid component of the home page in the browser of one visitor:   *)
(* its state, its effects and timers, the clicks on its squares and the    *)
(* requests in flight between it and the route.                            *)

MaxClicks == 3
MaxHandles == 2

\* the squares followed: yesterday, today and tomorrow of the first instant
Squares == { DayNumber(<<2024, 1, 7>>) + i : i \in 0 .. 2 }

\* the rows of the visitor when the page is opened
ClickRows ==
  { [user_id |-> "u1", date |-> <<2024, 1, 7>>, intensity |-> 4],
    [user_id |-> "u1", date |-> <<2024, 1, 8>>, intensity |-> 2] }

SessionEmail == "u1"

\* the instants the page is opened at
PageInstants == {Now0}

\* generateRolling12Months() at each instant, offset and lateness of the page
rollingDates ==
  [t \in PageInstants, offset \in TzOffsets, late \in BOOLEAN |->
     generateRolling12Months(t, offset, late)]

\* the squares followed among the dates of the grid
Rendered(dates) == { d \in Squares : \E i \in DOMAIN dates : dates[i] = d }

\* dates.map(date => ({ date, intensity: 0 }))
emptyData(dates) == [d \in Rendered(dates) |-> 0]

\* setTimeout returns a handle that no pending timer has
NextHandle(h) == (h % MaxHandles) + 1

\* useSession: the session is fetched and the status leaves 'loading'
SessionSettles(status) ==
  /\ ui.status = "loading"
  /\ ui' = [ui EXCEPT !.status = status, !.effect = TRUE]
  /\ UNCHANGED <<user_grids, now, ret, tz, requests, gridDates, users, tx, net, sub>>

\* a render whose loadGridData changed: the cleanup of the effect on
\* [demoTimeout] clears the timer of the render before, then the effect on
\* [loadGridData] runs loadGridData up to its return or its fetch
RunEffect ==
  /\ ui.effect
  /\ \E late \in BOOLEAN :
       LET dates == rollingDates[now, tz, late]
           cleaned == ui.timers \ {ui.stale}
           cleared == cleaned \ {ui.demoTimeout}
           handle == NextHandle(ui.handle)
       IN  IF ui.status = "loading"
             THEN ui' = [ui EXCEPT !.timers = cleared, !.demoTimeout = 0,
                                   !.stale = ui.demoTimeout,
                                   !.effect = (ui.demoTimeout # 0)]
           ELSE IF ui.status = "unauthenticated"
             THEN ui' = [ui EXCEPT !.timers = cleared \cup {handle},
                                   !.demoTimeout = handle, !.handle = handle,
                                   !.stale = ui.demoTimeout,
                                   !.grid = "empty", !.gridData = emptyData(dates),
                                   !.effect = TRUE]
           ELSE ui' = [ui EXCEPT !.timers = cleared, !.demoTimeout = 0,
                                 !.stale = ui.demoTimeout,
                                 !.grid = "empty", !.gridData = emptyData(dates),
                                 !.effect = (ui.demoTimeout # 0),
                                 !.fetch = <<ToISODate(dates[1], tz),
                                             ToISODate(dates[Len(dates)], tz)>>]
  /\ UNCHANGED <<user_grids, now, ret, tz, requests, gridDates, users, tx, net, sub>>

\* the callback of the demo timer
TimerFire(h) ==
  /\ h \in ui.timers
  /\ \E demoData \in [DOMAIN ui.gridData -> 0 .. 4] :
       ui' = [ui EXCEPT !.timers = @ \ {h}, !.grid = "demo", !.gridData = demoData,
                        !.loading = FALSE, !.demoTimeout = 0,
                        !.stale = ui.demoTimeout, !.effect = (ui.demoTimeout # 0)]
  /\ UNCHANGED <<user_grids, now, ret, tz, requests, gridDates, users, tx, net, sub>>

\* a row of GET /api/grid in JSON: row.date is midnight of the date on the
\* machine, written as its ISO string, of which the component keeps the date
ItemDateKey(date, offset) == ToISODate(DayNumber(date), offset)

\* getUserGridDataByDateRange
getUserGridDataByDateRange(grids, userId, startDate, endDate) ==
  { g \in grids : g.user_id = userId /\ Between(g.date, startDate, endDate) }

\* userDataMap.get(dateKey) || 0
mergedIntensity(rows, day, offset) ==
  LET found == { g \in rows : ItemDateKey(g.date, offset) = ToISODate(day, offset) }
  IN  IF found = {} THEN 0 ELSE (CHOOSE g \in found : TRUE).intensity

\* the route answers the GET of loadGridData and the component merges the
\* rows into the grid
LoadResponse ==
  /\ ui.fetch # <<>>
  /\ LET rows == getUserGridDataByDateRange(user_grids, SessionEmail,
                                            ui.fetch[1], ui.fetch[2])
     IN  ui' = [ui EXCEPT !.fetch = <<>>, !.loading = FALSE, !.grid = "data",
                          !.gridData = [d \in DOMAIN ui.gridData |->
                                          mergedIntensity(rows, d, tz)]]
  /\ UNCHANGED <<user_grids, now, ret, tz, requests, gridDates, users, tx, net, sub>>

\* DaySquare isFutureDate: both dates at their local midnight
isFutureDate(day, t, offset) == day > StartOfDay(NewDate(t, offset, 0)).day

\* the intensity that goes upward without returning to 0
newIntensity_NoWrap(intensity) == intensity + 1

\* const newIntensity = (intensity + 1) % 5
newIntensity(intensity) == (intensity + 1) % 5

\* the condition of handleClick
handleClick(isClickable, hasHandler, isOutsideYear, isLoading, isFuture) ==
  isClickable /\ hasHandler /\ ~isOutsideYear /\ ~isLoading /\ ~isFuture

\* a click on a square of the rendered grid: handleClick of DaySquare and
\* handleIntensityChange of DayGrid up to its fetch
Click(day) ==
  /\ ~ui.loading
  /\ day \in DOMAIN ui.gridData
  /\ ui.clicks < MaxClicks
  /\ ui' = [ui EXCEPT !.clicks = @ + 1, !.clicked = day]
  /\ IF /\ handleClick(ui.status = "authenticated", TRUE, FALSE, ui.loading,
                       isFutureDate(day, now, tz))
        /\ ui.status = "authenticated"
       THEN net' = [net EXCEPT !.posts =
                      Append(@, [date |-> ToISODate(day, tz),
                                 intensity |-> newIntensity(ui.gridData[day])])]
       ELSE net' = net
  /\ UNCHANGED <<user_grids, now, ret, tz, requests, gridDates, users, tx, sub>>

Without(seq, i) == SubSeq(seq, 1, i - 1) \o SubSeq(seq, i + 1, Len(seq))

\* the route handles one of the requests in flight
ServePost(i) ==
  /\ i \in DOMAIN net.posts
  /\ LET post == net.posts[i]
         handled == PostHandler(SessionEmail, post.date,
                                [kind |-> "number", x10 |-> post.intensity * 10])
     IN  /\ requests' = handled.requests
         /\ user_grids' = handled.grids
         /\ net' = [net EXCEPT !.posts = Without(@, i),
                               !.responses = Append(@, [date |-> post.date,
                                                        intensity |-> post.intensity,
                                                        status |-> handled.status])]
  /\ UNCHANGED <<now, ret, tz, gridDates, users, tx, ui, sub>>

\* response.ok
IsOk(status) == status >= 200 /\ status <= 299

\* a response arrives and handleIntensityChange goes on after its await
ResponseArrives(i) ==
  /\ i \in DOMAIN net.responses
  /\ LET response == net.responses[i]
     IN  /\ net' = [net EXCEPT !.responses = Without(@, i),
                               !.received = Append(@, response)]
         /\ ui' = IF IsOk(response.status)
                    THEN [ui EXCEPT !.gridData =
                            [d \in DOMAIN @ |->
                               IF ToISODate(d, tz) = response.date
                                 THEN response.intensity ELSE @[d]]]
                    ELSE ui
  /\ UNCHANGED <<user_grids, now, ret, tz, requests, gridDates, users, tx, sub>>

InitDayGrid ==
  /\ user_grids = OtherRows \cup ClickRows
  /\ now \in PageInstants
  /\ tz \in TzOffsets
  /\ ret = NoRet
  /\ requests = NoRequests
  /\ gridDates = NoGrid
  /\ users = BaseUsers
  /\ tx = NoTx
  /\ ui = [NoUi EXCEPT !.status = "loading", !.effect = TRUE]
  /\ net = NoNet
  /\ sub = 0

NextDayGrid ==
  \/ \E status \in {"authenticated", "unauthenticated"} : SessionSettles(status)
  \/ RunEffect
  \/ \E h \in 1 .. MaxHandles : TimerFire(h)
  \/ LoadResponse
  \/ \E day \in Squares : Click(day)
  \/ \E i \in 1 .. MaxClicks : ServePost(i)
  \/ \E i \in 1 .. MaxClicks : ResponseArrives(i)

SpecDayGrid == InitDayGrid /\ [][NextDayGrid]_vars

\* the page in the browser of a visitor who is not signed in
NextDemo ==
  \/ SessionSettles("unauthenticated")
  \/ RunEffect
  \/ \E h \in 1 .. MaxHandles : TimerFire(h)

\* the session settles, a pending effect runs, and a timer that stays pending
\* fires
FairDemo ==
  /\ WF_vars(SessionSettles("unauthenticated"))
  /\ WF_vars(RunEffect)
  /\ \A h \in 1 .. MaxHandles : WF_vars(TimerFire(h))

SpecDemo == InitDayGrid /\ [][NextDemo]_vars /\ FairDemo

----------------------------------------------------------------------------
(* ensureUser on the users and user_grids tables, from the empty database  *)
(* on. users and user_grids are the committed rows, which is what every    *)
(* other request reads (READ COMMITTED); the statements of the open        *)
(* transaction act on the rows of tx, which COMMIT publishes. Other        *)
(* requests write nothing while the transaction is open.                   *)

Null == "NULL"

UserIds == {"id1", "id2"}
Emails == {"ann@x.org"}

\* email.split('@')[0].toLowerCase().replace(/[^a-z0-9-]/g, '-')
usernameOf == [e \in Emails |-> "ann"]

\* the usernames a user picks
PickedUsernames == {"annie"}

UserDates == { <<2024, 1, 7>>, <<2024, 1, 8>> }
UserIntensities == {1, 3}

\* let username = null; if (user.email) username = ...
deriveUsername(email) == IF email = Null THEN Null ELSE usernameOf[email]

\* COALESCE(a, b)
Coalesce(a, b) == IF a # Null THEN a ELSE b

\* id TEXT PRIMARY KEY, email TEXT UNIQUE, username TEXT UNIQUE
UsersConstraints(rows) ==
  \A a, b \in rows :
    a # b => /\ a.id # b.id
             /\ a.email = Null \/ a.email # b.email
             /\ a.username = Null \/ a.username # b.username

\* the rows a statement leaves, or the error it raises
Statement(rows) ==
  IF UsersConstraints(rows) THEN [ok |-> TRUE, rows |-> rows]
  ELSE [ok |-> FALSE, rows |-> {}]

\* every statement of the transaction written straight to the tables
Published_Autocommit(stored, working, committed) == working

\* the rows other requests read: those of the transaction once it commits
Published(stored, working, committed) == IF committed THEN working ELSE stored

Closed == {"idle", "returned", "thrown"}

Returned == [NoTx EXCEPT !.pc = "returned"]
\* the call threw: the error and the statement it came from
Thrown(error, at) ==
  [NoTx EXCEPT !.pc = "thrown", !.error = error, !.at = at, !.id = tx.id,
               !.email = tx.email, !.existingId = tx.existingId]

\* UPDATE users SET username = COALESCE(users.username, $4) WHERE id = $1
UpdateSameId(rows, id, username) ==
  { IF u.id = id THEN [u EXCEPT !.username = Coalesce(@, username)] ELSE u : u \in rows }

\* INSERT INTO users ... ON CONFLICT (id) DO UPDATE SET
\*   email = COALESCE($2, users.email), username = COALESCE(users.username, $5)
InsertOrUpdate(rows, id, email, username) ==
  IF \E u \in rows : u.id = id
    THEN { IF u.id = id
             THEN [u EXCEPT !.email = Coalesce(email, @), !.username = Coalesce(@, username)]
             ELSE u : u \in rows }
    ELSE rows \cup { [id |-> id, email |-> email, username |-> username] }

\* ensureUser up to its return, its throw or its BEGIN
ensureUser(id, email) ==
  /\ tx.pc \in Closed
  /\ LET username == deriveUsername(email)
         existingUser == IF email = Null THEN {} ELSE { u \in users : u.email = email }
     IN  IF existingUser # {}
           THEN LET existingId == (CHOOSE u \in existingUser : TRUE).id
                IN  IF existingId # id
                      THEN /\ tx' = [pc |-> "begun", id |-> id, email |-> email,
                                     existingId |-> existingId, users |-> users,
                                     grids |-> user_grids, error |-> "", at |-> ""]
                           /\ users' = users
                      ELSE LET done == Statement(UpdateSameId(users, id, username))
                           IN  /\ users' = IF done.ok THEN done.rows ELSE users
                               /\ tx' = IF done.ok THEN Returned
                                        ELSE [NoTx EXCEPT !.pc = "thrown",
                                                          !.error = "unique_violation"]
           ELSE LET done == Statement(InsertOrUpdate(users, id, email, username))
                IN  /\ users' = IF done.ok THEN done.rows ELSE users
                    /\ tx' = IF done.ok THEN Returned
                             ELSE [NoTx EXCEPT !.pc = "thrown",
                                               !.error = "unique_violation"]
  /\ UNCHANGED <<user_grids, now, ret, tz, requests, gridDates, ui, net, sub>>

\* a statement of the open transaction: the rows it leaves in the
\* transaction, or ROLLBACK and throw
Execute(pc, done, working) ==
  IF done.ok
    THEN /\ tx' = [tx EXCEPT !.pc = pc, !.users = working.users, !.grids = working.grids]
         /\ users' = Published(users, working.users, FALSE)
         /\ user_grids' = Published(user_grids, working.grids, FALSE)
    ELSE /\ tx' = Thrown("unique_violation", tx.pc)
         /\ users' = Published(users, tx.users, FALSE)
         /\ user_grids' = Published(user_grids, tx.grids, FALSE)

\* INSERT INTO users (id, email, ..., username, ...) VALUES ($1, null, ..., $5, ...)
\* ON CONFLICT (id) DO NOTHING
InsertNewUser ==
  /\ tx.pc = "begun"
  /\ LET rows == IF \E u \in tx.users : u.id = tx.id THEN tx.users
                 ELSE tx.users \cup { [id |-> tx.id, email |-> Null,
                                       username |-> deriveUsername(tx.email)] }
     IN  Execute("inserted", Statement(rows), [users |-> rows, grids |-> tx.grids])
  /\ UNCHANGED <<now, ret, tz, requests, gridDates, ui, net, sub>>

\* INSERT INTO user_grids SELECT $1, date, intensity ... WHERE user_id = $2
\* ON CONFLICT (user_id, date) DO NOTHING
CopyGrids ==
  /\ tx.pc = "inserted"
  /\ LET copied == { [user_id |-> tx.id, date |-> g.date, intensity |-> g.intensity] :
                       g \in { r \in tx.grids : r.user_id = tx.existingId } }
         kept == { c \in copied :
                     ~\E r \in tx.grids : r.user_id = tx.id /\ r.date = c.date }
     IN  Execute("copied", [ok |-> TRUE, rows |-> {}],
                 [users |-> tx.users, grids |-> tx.grids \cup kept])
  /\ UNCHANGED <<now, ret, tz, requests, gridDates, ui, net, sub>>

\* DELETE FROM user_grids WHERE user_id = $1
DeleteOldGrids ==
  /\ tx.pc = "copied"
  /\ Execute("gridsDeleted", [ok |-> TRUE, rows |-> {}],
             [users |-> tx.users,
              grids |-> { r \in tx.grids : r.user_id # tx.existingId }])
  /\ UNCHANGED <<now, ret, tz, requests, gridDates, ui, net, sub>>

\* DELETE FROM users WHERE id = $1, with ON DELETE CASCADE on user_grids
DeleteOldUser ==
  /\ tx.pc = "gridsDeleted"
  /\ Execute("userDeleted", [ok |-> TRUE, rows |-> {}],
             [users |-> { u \in tx.users : u.id # tx.existingId },
              grids |-> { r \in tx.grids : r.user_id # tx.existingId }])
  /\ UNCHANGED <<now, ret, tz, requests, gridDates, ui, net, sub>>

\* UPDATE users SET email = $2, username = COALESCE(users.username, $5) WHERE id = $1
UpdateNewUser ==
  /\ tx.pc = "userDeleted"
  /\ LET rows == { IF u.id = tx.id
                     THEN [u EXCEPT !.email = tx.email,
                                    !.username = Coalesce(@, deriveUsername(tx.email))]
                     ELSE u : u \in tx.users }
     IN  Execute("updated", Statement(rows), [users |-> rows, grids |-> tx.grids])
  /\ UNCHANGED <<now, ret, tz, requests, gridDates, ui, net, sub>>

\* COMMIT; return
Commit ==
  /\ tx.pc = "updated"
  /\ users' = Published(users, tx.users, TRUE)
  /\ user_grids' = Published(user_grids, tx.grids, TRUE)
  /\ tx' = [Returned EXCEPT !.id = tx.id, !.email = tx.email,
                            !.existingId = tx.existingId]
  /\ UNCHANGED <<now, ret, tz, requests, gridDates, ui, net, sub>>

\* a statement of the open transaction, COMMIT included, fails for a reason
\* outside the tables (connection, server): ROLLBACK and throw
Fault ==
  /\ tx.pc \notin Closed
  /\ tx' = Thrown("fault", tx.pc)
  /\ users' = Published(users, tx.users, FALSE)
  /\ user_grids' = Published(user_grids, tx.grids, FALSE)
  /\ UNCHANGED <<now, ret, tz, requests, gridDates, ui, net, sub>>

\* updateUsername
updateUsername(userId, newUsername) ==
  /\ tx.pc \in Closed
  /\ LET done == Statement({ IF u.id = userId THEN [u EXCEPT !.username = newUsername]
                             ELSE u : u \in users })
     IN  /\ done.ok
         /\ users' = done.rows
  /\ tx' = NoTx
  /\ UNCHANGED <<user_grids, now, ret, tz, requests, gridDates, ui, net, sub>>

\* updateGridSquare for a user of the table (FOREIGN KEY user_id)
WriteSquare(userId, date, intensity) ==
  /\ tx.pc \in Closed
  /\ \E u \in users : u.id = userId
  /\ user_grids' = Upsert(user_grids, userId, date, intensity)
  /\ tx' = NoTx
  /\ UNCHANGED <<users, now, ret, tz, requests, gridDates, ui, net, sub>>

InitUser ==
  /\ user_grids = {}
  /\ users = {}
  /\ now = Now0
  /\ ret = NoRet
  /\ tz = 0
  /\ requests = NoRequests
  /\ gridDates = NoGrid
  /\ tx = NoTx
  /\ ui = NoUi
  /\ net = NoNet
  /\ sub = 0

NextUser ==
  \/ \E id \in UserIds, email \in Emails \cup {Null} : ensureUser(id, email)
  \/ InsertNewUser
  \/ CopyGrids
  \/ DeleteOldGrids
  \/ DeleteOldUser
  \/ UpdateNewUser
  \/ Commit
  \/ Fault
  \/ \E id \in UserIds, name \in PickedUsernames : updateUsername(id, name)
  \/ \E id \in UserIds, date \in UserDates, i \in UserIntensities :
       WriteSquare(id, date, i)

SpecUser == InitUser /\ [][NextUser]_vars

----------------------------------------------------------------------------
(* What the properties are stated over: the call that returned last, the   *)
(* rows it was computed from, and the calendar.                            *)

Called == ret.op \in {"range", "year"}

stats == ret.stats

\* the window of the call: the requested range, or Jan 1 .. Dec 31 of the year
WindowStart == IF ret.op = "year" THEN <<ret.year, 1, 1>> ELSE ret.startDate
WindowEnd == IF ret.op = "year" THEN <<ret.year, 12, 31>> ELSE ret.endDate

ValidWindow == DayNumber(WindowStart) <= DayNumber(WindowEnd)

\* the user's rows
UserRows == { g \in user_grids : g.user_id = ret.userId }

\* day numbers of the user's sick days inside the window
SickDaysInWindow ==
  { DayNumber(g.date) : g \in { r \in UserRows :
      /\ r.intensity > 0
      /\ DayNumber(WindowStart) <= DayNumber(r.date)
      /\ DayNumber(r.date) <= DayNumber(WindowEnd) } }

\* today's day number
Today == now \div HoursPerDay

SetMax(S) == CHOOSE x \in S : \A y \in S : y <= x
SetMin(S) == CHOOSE x \in S : \A y \in S : x <= y

\* maximal runs <<first, last>> of consecutive day numbers of S
Runs(S) ==
  { <<a, b>> \in S \X S :
      /\ a <= b
      /\ \A k \in a .. b : k \in S
      /\ (a - 1) \notin S
      /\ (b + 1) \notin S }

RunLength(r) == r[2] - r[1] + 1

\* h is num / den rounded to a whole number of hundredths, halves upwards
IsRound2(h, num, den) ==
  /\ 2 * den * h - den <= 200 * num
  /\ 200 * num < 2 * den * h + den

----------------------------------------------------------------------------
(* C1: the streak lengths found by the streak walk sum to totalSickDays,   *)
(* and every one of them is at least 1: every sick day of the window is    *)
(* in exactly one streak.                                                  *)
C1_StreaksSumToTotal ==
  Called =>
    /\ SumSeq(stats.streaks) = stats.totalSickDays
    /\ SumSeq(stats.streaks) = Cardinality(SickDaysInWindow)
    /\ \A i \in 1 .. Len(stats.streaks) : stats.streaks[i] >= 1

C1_Witness ==
  /\ Called
  /\ Len(stats.streaks) >= 2
  /\ stats.totalSickDays >= 3

(* C2: longestStreak is the length of the longest maximal run of sick days *)
(* on consecutive dates of the window, 0 without sick days;                *)
(* averageSickStreak is round2 of the mean length of the maximal runs,     *)
(* 0 if there is none.                                                     *)
C2_LongestAndAverage ==
  Called =>
    LET runs == Runs(SickDaysInWindow)
    IN  IF runs = {}
        THEN stats.longestStreak = 0 /\ stats.averageSickStreak = 0
        ELSE /\ \E r \in runs : RunLength(r) = stats.longestStreak
             /\ \A r \in runs : RunLength(r) <= stats.longestStreak
             /\ IsRound2(stats.averageSickStreak,
                         Cardinality(SickDaysInWindow), Cardinality(runs))

C2_Witness ==
  /\ Called
  /\ \E r, q \in Runs(SickDaysInWindow) : RunLength(r) = 2 /\ RunLength(q) = 1
  /\ stats.longestStreak = 2
  /\ stats.averageSickStreak = 150

(* C3: currentStreak is the length of the run that ends at the latest sick *)
(* day when today - lastDate is 0 or 1, and 0 in every other case (the     *)
(* latest sick day 2 or more days back, or dated after today).             *)
C3_CurrentStreak ==
  Called =>
    LET S == SickDaysInWindow
    IN  IF S # {} /\ (Today - SetMax(S)) \in {0, 1}
        THEN \E r \in Runs(S) : r[2] = SetMax(S) /\ stats.currentStreak = RunLength(r)
        ELSE stats.currentStreak = 0

(* C4: the returned longestStreak is at least the returned currentStreak.  *)
C4_LongestAtLeastCurrent ==
  Called => stats.longestStreak >= stats.currentStreak

C4_Witness ==
  /\ Called
  /\ stats.currentStreak >= 1
  /\ stats.longestStreak > stats.currentStreak

(* C5: recoveryRate is round2 of the mean, over the pairs of adjacent      *)
(* streaks, of the number of non-sick days between them, and 0 with fewer  *)
(* than two streaks; sick days on D, D+1, D+5, D+6 give recoveryRate 3,    *)
(* longestStreak 2 and averageSickStreak 2.                                *)
C5_RecoveryRate ==
  Called =>
    LET S == SickDaysInWindow
        runs == Runs(S)
    IN  /\ IF Cardinality(runs) < 2
           THEN stats.recoveryRate = 0
           ELSE IsRound2(stats.recoveryRate,
                         Cardinality({ k \in SetMin(S) .. SetMax(S) : k \notin S }),
                         Cardinality(runs) - 1)
        /\ \A D \in S :
             S = {D, D + 1, D + 5, D + 6} =>
               /\ stats.recoveryRate = 300
               /\ stats.longestStreak = 2
               /\ stats.averageSickStreak = 200

C5_Witness ==
  /\ Called
  /\ \E D \in SickDaysInWindow : SickDaysInWindow = {D, D + 1, D + 5, D + 6}
  /\ stats.recoveryRate = 300

(* C6: totalSickDays is the number of the user's records with              *)
(* intensity > 0 whose date lies in the window, both end dates included.   *)
C6_TotalSickDays ==
  Called => stats.totalSickDays = Cardinality(SickDaysInWindow)

C6_Witness ==
  /\ Called
  /\ ret.op = "range"
  /\ DayNumber(WindowStart) \in SickDaysInWindow
  /\ DayNumber(WindowEnd) \in SickDaysInWindow
  /\ \E g \in UserRows : g.intensity > 0 /\ DayNumber(g.date) \notin SickDaysInWindow
  /\ \E g \in UserRows : g.intensity = 0 /\ Between(g.date, WindowStart, WindowEnd)
  /\ \E g \in user_grids \ UserRows :
       g.intensity > 0 /\ Between(g.date, WindowStart, WindowEnd)
  /\ stats.totalSickDays = 2

(* C7: whatever window is requested, yearToDatePercentage is               *)
(* round2(c / d * 100), c the number of the user's sick days dated within  *)
(* [Jan 1 of the current year, today] and d = (today - Jan 1) + 1.         *)
C7_YearToDate ==
  Called =>
    LET jan1 == DayNumber(<<CivilFromDays(Today)[1], 1, 1>>)
        c == Cardinality({ g \in UserRows :
               /\ g.intensity > 0
               /\ jan1 <= DayNumber(g.date)
               /\ DayNumber(g.date) <= Today })
        d == (Today - jan1) + 1
    IN  IsRound2(stats.yearToDatePercentage, 100 * c, d)

\* years on which the leap-year rule is compared with the calendar
ProbeYears == {1900, 2000, 2023, 2024, 2100}

\* the number of calendar days from Jan 1 to Dec 31 of a year
CalendarDaysOfYear(y) == DayNumber(<<y, 12, 31>>) - DayNumber(<<y, 1, 1>>) + 1

(* C8: percentageOfYear is round2(totalSickDays / L * 100), L the          *)
(* inclusive number of calendar days of the window: (end - start) + 1 for  *)
(* a range with start <= end, and for a year 366 exactly in Gregorian leap *)
(* years and 365 otherwise; the result lies in [0, 100].                   *)
C8_PercentageOfYear ==
  /\ (Called /\ ValidWindow) =>
       /\ IsRound2(stats.percentageOfYear, 100 * stats.totalSickDays,
                   DayNumber(WindowEnd) - DayNumber(WindowStart) + 1)
       /\ stats.percentageOfYear >= 0
       /\ stats.percentageOfYear <= 100 * 100
  /\ \A y \in ProbeYears :
       /\ daysInYear(y) = CalendarDaysOfYear(y)
       /\ daysInYear(y) = (IF (y % 4 = 0 /\ y % 100 # 0) \/ y % 400 = 0 THEN 366 ELSE 365)

C8_Witness ==
  /\ Called
  /\ ret.op = "year"
  /\ ret.year = 2024
  /\ stats.totalSickDays = 4
  /\ stats.percentageOfYear = 109

(* C9: mostCommonDay names the weekday with the highest sick-day count of  *)
(* the window, the lowest weekday index among those that share it (two     *)
(* Sundays and two Tuesdays give "Sunday"); it is "None" exactly when      *)
(* there are no sick days.                                                 *)
WeekdayCount(S, w) == Cardinality({ k \in S : (k + 4) % 7 = w })

C9_MostCommonDay ==
  Called =>
    LET S == SickDaysInWindow
    IN  /\ (stats.mostCommonDay = "None") <=> (S = {})
        /\ S # {} =>
             \E w \in 0 .. 6 :
               /\ stats.mostCommonDay = dayNames[w + 1]
               /\ \A v \in 0 .. 6 : WeekdayCount(S, v) <= WeekdayCount(S, w)
               /\ \A v \in 0 .. w - 1 : WeekdayCount(S, v) < WeekdayCount(S, w)

C9_Witness ==
  /\ Called
  /\ WeekdayCount(SickDaysInWindow, 0) = 2
  /\ WeekdayCount(SickDaysInWindow, 2) = 2
  /\ stats.mostCommonDay = "Sunday"

(* C10: for a user without any record and a window with start <= end, the  *)
(* statistics are totalSickDays 0, percentageOfYear 0, mostCommonDay       *)
(* "None", currentStreak 0, longestStreak 0, averageSickStreak 0,          *)
(* recoveryRate 0 and averageIntensity 0.                                  *)
C10_EmptyRecordSet ==
  (Called /\ ValidWindow /\ UserRows = {}) =>
    /\ stats.totalSickDays = 0
    /\ stats.percentageOfYear = 0
    /\ stats.mostCommonDay = "None"
    /\ stats.currentStreak = 0
    /\ stats.longestStreak = 0
    /\ stats.averageSickStreak = 0
    /\ stats.recoveryRate = 0
    /\ stats.averageIntensity = 0

C10_Witness ==
  /\ ret.op = "range"
  /\ ValidWindow
  /\ UserRows = {}
  /\ \E g \in user_grids : g.intensity > 0 /\ Between(g.date, WindowStart, WindowEnd)
  /\ stats.averageIntensity = 0
  /\ stats.mostCommonDay = "None"

(***************************************************************************)
(* C11: when the window holds exactly one sick day, totalSickDays is 1,    *)
(* longestStreak is 1, averageSickStreak is 1, recoveryRate is 0, and      *)
(* currentStreak is 1 if that day is today or yesterday and 0 otherwise.   *)
(***************************************************************************)
C11_SingleSickDay ==
  (Called /\ Cardinality(SickDaysInWindow) = 1) =>
    LET d == CHOOSE k \in SickDaysInWindow : TRUE IN
      /\ stats.totalSickDays = 1
      /\ stats.longestStreak = 1
      /\ stats.averageSickStreak = 100
      /\ stats.recoveryRate = 0
      /\ stats.currentStreak = (IF Today - d \in {0, 1} THEN 1 ELSE 0)

(***************************************************************************)
(* C12: rows of intensity 0 take no part in any statistic: the response    *)
(* equals the statistics of the table without its intensity-0 rows, so     *)
(* adding or removing such rows changes no field, and a day of intensity   *)
(* 0 separates two streaks exactly as a day without a row does.            *)
(***************************************************************************)
WithoutZeroRows(grids) == { g \in grids : g.intensity # 0 }

C12_ZeroRowsExcluded ==
  /\ ret.op = "range" =>
        stats = getUserStatsByDateRange(WithoutZeroRows(user_grids), ret.userId,
                                        ret.startDate, ret.endDate, now)
  /\ ret.op = "year" =>
        stats = getUserStats(WithoutZeroRows(user_grids), ret.userId, ret.year, now)

\* a day of intensity 0 lies between two sick days of the window
C12_Witness ==
  /\ ret.op = "range"
  /\ \E z \in UserRows :
       /\ z.intensity = 0
       /\ DayNumber(z.date) - 1 \in SickDaysInWindow
       /\ DayNumber(z.date) + 1 \in SickDaysInWindow
  /\ stats.streaks = <<1, 1>>
  /\ stats.totalSickDays = 2

(***************************************************************************)
(* C13: a window whose end date is before its start date is refused:       *)
(* the request fails and no statistics are returned with status 200.       *)
(***************************************************************************)
C13_InvalidWindowRejected ==
  (ret.op = "range" /\ ~ValidWindow) => ret.status # 200

(***************************************************************************)
(* C18: a POST whose date is later than today's calendar date on the       *)
(* server is never accepted, whatever the server's UTC offset and the      *)
(* time of day: it is answered 400 (and so stores nothing).                *)
(***************************************************************************)
\* the calendar day of the server's local clock
LocalToday == (now + tz) \div HoursPerDay

C18_FutureDateRejected ==
  (/\ ret.op = "post"
   /\ ret.status # 429
   /\ Len(ret.date) = 3
   /\ DayNumber(ret.date) > LocalToday) => ret.status = 400

(***************************************************************************)
(* C19: every write leaves exactly one row for its (user, date) pair,      *)
(* holding the intensity of that write (the last one applied), leaves the  *)
(* rows of every other pair as they were, and the table never holds two    *)
(* rows of one pair.                                                       *)
(***************************************************************************)
SamePair(g, u, d) == g.user_id = u /\ g.date = d

C19_LastWriteWins ==
  [][(ret.op = "none" /\ ret'.op = "post" /\ ret'.status = 200) =>
       LET u == ret'.userId
           d == ret'.date
           i == ret'.intensity.x10 \div 10
       IN  /\ { g \in user_grids' : SamePair(g, u, d) }
                = { [user_id |-> u, date |-> d, intensity |-> i] }
           /\ { g \in user_grids' : ~SamePair(g, u, d) }
                = { g \in user_grids : ~SamePair(g, u, d) }
           /\ \A g1, g2 \in user_grids' :
                SamePair(g1, g2.user_id, g2.date) => g1 = g2]_vars

\* the stored row of 2024-01-08 (intensity 2) was overwritten by a write of
\* another intensity, next to a row inserted for another date and the row
\* of the other user
C19_Witness ==
  /\ ret.op = "post"
  /\ ret.status = 200
  /\ ret.date = <<2024, 1, 8>>
  /\ { g.intensity : g \in { r \in user_grids : SamePair(r, "u1", <<2024, 1, 8>>) } }
       = { ret.intensity.x10 \div 10 }
  /\ ret.intensity.x10 \div 10 # 2
  /\ \E g \in user_grids : SamePair(g, "u1", <<2024, 1, 9>>)
  /\ OtherRows \subseteq user_grids

(***************************************************************************)
(* C20: a POST whose intensity is missing, not a number, not an integer    *)
(* or outside 0..4 is answered 400.                                        *)
(***************************************************************************)
IsIntegerInRange(intensity) ==
  intensity.kind = "number" /\ intensity.x10 \in {0, 10, 20, 30, 40}

C20_InvalidIntensityRejected ==
  (ret.op = "post" /\ ret.status # 429 /\ ~IsIntegerInRange(ret.intensity))
    => ret.status = 400

(***************************************************************************)
(* C15: the rolling-12-months generator returns consecutive days without   *)
(* a gap, starting at the most recent Sunday on or before today - 365,     *)
(* containing today, ending on the Saturday on or after today, and of a    *)
(* length divisible by 7.                                                  *)
(***************************************************************************)
SundayOnOrBefore(k) == k - ((k + 4) % 7)
SaturdayOnOrAfter(k) == k + (6 - ((k + 4) % 7))

GapFree(dates) == \A i \in 1 .. Len(dates) - 1 : dates[i + 1] = dates[i] + 1

C15_RollingGrid ==
  gridDates.by \in {"UserStats", "DayGrid"} =>
    LET dates == gridDates.dates IN
      /\ Len(dates) > 0
      /\ GapFree(dates)
      /\ dates[1] = SundayOnOrBefore(LocalToday - 365)
      /\ \E i \in 1 .. Len(dates) : dates[i] = LocalToday
      /\ dates[Len(dates)] = SaturdayOnOrAfter(LocalToday)
      /\ Len(dates) % 7 = 0

(***************************************************************************)
(* C16: the year generator returns consecutive days without a gap,         *)
(* starting at the Sunday on or before January 1, containing every day     *)
(* through December 31, ending on a Saturday, of a length divisible by 7.  *)
(***************************************************************************)
C16_YearGrid ==
  gridDates.by = "year" =>
    LET dates == gridDates.dates
        jan1 == DayNumber(<<gridDates.year, 1, 1>>)
        dec31 == DayNumber(<<gridDates.year, 12, 31>>)
    IN
      /\ Len(dates) > 0
      /\ GapFree(dates)
      /\ dates[1] = SundayOnOrBefore(jan1)
      /\ \A k \in jan1 .. dec31 : \E i \in 1 .. Len(dates) : dates[i] = k
      /\ (dates[Len(dates)] + 4) % 7 = 6
      /\ Len(dates) % 7 = 0

(***************************************************************************)
(* C17: in rolling mode the window sent to the statistics is               *)
(* [today - 365, today]; the days that only pad the grid to whole weeks    *)
(* are not part of it.                                                     *)
(***************************************************************************)
C17_StatsWindow ==
  ret.op = "load" =>
    /\ ret.startDate = CivilFromDays(LocalToday - 365)
    /\ ret.endDate = CivilFromDays(LocalToday)

Recomputed ==
  IF ret.op = "range"
    THEN getUserStatsByDateRange(user_grids, ret.userId, ret.startDate, ret.endDate, now)
    ELSE getUserStats(user_grids, ret.userId, ret.year, now)

C27_YearEqualsRange ==
  ret.op = "year" =>
    stats = getUserStatsByDateRange(user_grids, ret.userId,
                                    <<ret.year, 1, 1>>, <<ret.year, 12, 31>>, now)

(***************************************************************************)
(* C23: averageIntensity is the mean intensity of the sick days of the     *)
(* window rounded to two decimals, 0 when the window has no sick day, and  *)
(* otherwise between 1 and 4.                                              *)
(***************************************************************************)
SickRowsInWindow ==
  { r \in UserRows :
      /\ r.intensity > 0
      /\ DayNumber(WindowStart) <= DayNumber(r.date)
      /\ DayNumber(r.date) <= DayNumber(WindowEnd) }

RECURSIVE IntensitySum(_)
IntensitySum(rows) ==
  IF rows = {} THEN 0
  ELSE LET r == CHOOSE x \in rows : TRUE IN r.intensity + IntensitySum(rows \ {r})

C23_AverageIntensity ==
  Called =>
    IF SickRowsInWindow = {}
      THEN stats.averageIntensity = 0
      ELSE /\ IsRound2(stats.averageIntensity, IntensitySum(SickRowsInWindow),
                       Cardinality(SickRowsInWindow))
           /\ 100 <= stats.averageIntensity
           /\ stats.averageIntensity <= 400

\* three sick days of intensities 1, 2 and 2: the mean 5/3 is rounded to 1.67
C23_Witness ==
  /\ ret.op = "range"
  /\ Cardinality(SickRowsInWindow) = 3
  /\ IntensitySum(SickRowsInWindow) = 5
  /\ stats.averageIntensity = 167

(***************************************************************************)
(* C24: of the updates of one user, at most 30 are accepted within any     *)
(* interval of 60000 ms: an accepted update is at most the 30th accepted   *)
(* one of the 60000 ms that end with it.                                   *)
(***************************************************************************)
Accepted(i) == net.received[i].status = 200

AcceptedWithin(i) ==
  { j \in 1 .. i :
      /\ Accepted(j)
      /\ net.received[j].at > net.received[i].at - windowMs \div MsPerStep }

C24_RateLimit ==
  \A i \in 1 .. Len(net.received) :
    Accepted(i) => Cardinality(AcceptedWithin(i)) <= maxRequests

(***************************************************************************)
(* C25: once the session status is 'unauthenticated' the demo timer        *)
(* eventually fires: the grid shows the demo data and loading is false.    *)
(***************************************************************************)
C25_DemoEventually ==
  (ui.status = "unauthenticated") ~> (ui.grid = "demo" /\ ~ui.loading)

\* the cycle 0 -> 1 -> 2 -> 3 -> 4 -> 0
CycleNext(intensity) ==
  CASE intensity = 0 -> 1
    [] intensity = 1 -> 2
    [] intensity = 2 -> 3
    [] intensity = 3 -> 4
    [] intensity = 4 -> 0

\* the square can be edited: the visitor is signed in, the grid is not
\* loading and the square is not dated after today
Editable(day) ==
  ui.status = "authenticated" /\ ~ui.loading /\ day <= LocalToday

(***************************************************************************)
(* C26: a click on an editable square requests the next intensity of the   *)
(* cycle 0 -> 1 -> 2 -> 3 -> 4 -> 0 for the date of the square, a value of *)
(* 0..4; a click on a square dated after today, on a loading grid or on a  *)
(* square that is not clickable requests nothing.                          *)
(***************************************************************************)
C26_ClickCycle ==
  [][ui'.clicks = ui.clicks + 1 =>
       IF Editable(ui'.clicked)
         THEN /\ CycleNext(ui.gridData[ui'.clicked]) \in 0 .. 4
              /\ net'.posts =
                   Append(net.posts, [date |-> ToISODate(ui'.clicked, tz),
                                      intensity |-> CycleNext(ui.gridData[ui'.clicked])])
         ELSE net' = net]_vars

\* two clicks of a signed-in visitor, one on tomorrow's square and one on a
\* square shown at 4: the only request in flight asks for 0
C26_Witness ==
  /\ ui.status = "authenticated" /\ tz = 0
  /\ ui.clicks = 2
  /\ ui.clicked = DayNumber(<<2024, 1, 7>>)
  /\ ui.gridData[DayNumber(<<2024, 1, 7>>)] = 4
  /\ net = [NoNet EXCEPT !.posts = << [date |-> <<2024, 1, 7>>, intensity |-> 0] >>]

\* the intensity the square showed when the grid was loaded
InitialIntensity(day) == mergedIntensity(ClickRows, day, tz)

\* the intensity stored under the date the clicks on the square post
StoredIntensity(day) ==
  LET found == { g \in user_grids :
                   g.user_id = SessionEmail /\ g.date = ToISODate(day, tz) }
  IN  IF found = {} THEN 0 ELSE (CHOOSE g \in found : TRUE).intensity

\* every click was on the square, its request was answered with 200 and the
\* answer has arrived
AllClicksAnswered(day) ==
  /\ ui.status = "authenticated"
  /\ ui.clicks >= 1
  /\ net.posts = <<>> /\ net.responses = <<>>
  /\ Len(net.received) = ui.clicks
  /\ \A i \in DOMAIN net.received :
       /\ net.received[i].status = 200
       /\ net.received[i].date = ToISODate(day, tz)

(***************************************************************************)
(* C30: after k clicks of a signed-in visitor on one editable square whose *)
(* requests all succeeded, the square shows and the table stores           *)
(* (initial + k) mod 5.                                                    *)
(***************************************************************************)
C30_ClicksAccumulate ==
  \A day \in Squares :
    AllClicksAnswered(day) =>
      /\ ui.gridData[day] = (InitialIntensity(day) + ui.clicks) % 5
      /\ StoredIntensity(day) = (InitialIntensity(day) + ui.clicks) % 5

\* a migration is under way: ensureUser found the email under another id
Migrating == tx.pc \notin Closed

\* the records of a user on a date
RecordsOf(grids, userId, date) == { r \in grids : r.user_id = userId /\ r.date = date }

\* the intensity the new id is to hold on a date: its own, else the old id's
MigratedIntensity(date) ==
  IF RecordsOf(user_grids, tx.id, date) # {}
    THEN (CHOOSE r \in RecordsOf(user_grids, tx.id, date) : TRUE).intensity
    ELSE (CHOOSE r \in RecordsOf(user_grids, tx.existingId, date) : TRUE).intensity

(***************************************************************************)
(* C28: a call of ensureUser with an email stored under another id ends    *)
(* with success unless the database fails, and then every date with a      *)
(* record under the old or the new id has exactly one record under the new *)
(* id, with the new id's own intensity or else the old id's, no record and *)
(* no user row is left under the old id, and the new row has the email.    *)
(***************************************************************************)
C28_MigrationSucceeds ==
  [][(Migrating /\ tx'.pc \in Closed /\ tx'.error # "fault") =>
       /\ tx'.pc = "returned"
       /\ \A date \in UserDates :
            RecordsOf(user_grids, tx.id, date) \cup
              RecordsOf(user_grids, tx.existingId, date) # {} =>
                /\ Cardinality(RecordsOf(user_grids', tx.id, date)) = 1
                /\ \A r \in RecordsOf(user_grids', tx.id, date) :
                     r.intensity = MigratedIntensity(date)
       /\ ~\E r \in user_grids' : r.user_id = tx.existingId
       /\ ~\E u \in users' : u.id = tx.existingId
       /\ \E u \in users' : u.id = tx.id /\ u.email = tx.email]_vars

\* the tables once the migration is done
MigratedGrids ==
  { r \in user_grids : r.user_id # tx.existingId } \cup
    { [user_id |-> tx.id, date |-> r.date, intensity |-> r.intensity] :
        r \in { o \in user_grids :
                  o.user_id = tx.existingId /\ RecordsOf(user_grids, tx.id, o.date) = {} } }

MigratedUsers ==
  LET rest == { u \in users : u.id \notin {tx.id, tx.existingId} }
      own == { u \in users : u.id = tx.id }
      username == IF own # {} /\ (CHOOSE u \in own : TRUE).username # Null
                    THEN (CHOOSE u \in own : TRUE).username
                    ELSE usernameOf[tx.email]
  IN  rest \cup { [id |-> tx.id, email |-> tx.email, username |-> username] }

====
